---- MODULE Spec2Model ----
(***************************************************************************)
(* Model of src/uniV3Pricing.py: the Uniswap-V3 fixed-point tick/price     *)
(* math and the Arcadia account position aggregation built on it.          *)
(*                                                                         *)
(* Python integers are unbounded.  The sqrt-prices are 160-bit values and  *)
(* the intermediate products 256-bit values, so every integer that takes   *)
(* part in the price arithmetic is modelled as an unbounded natural: a     *)
(* sequence of base-256 digits, least significant first, without leading   *)
(* zero digits (the empty sequence is 0).  Ticks fit a machine integer and *)
(* are modelled as Int.                                                    *)
(***************************************************************************)
EXTENDS Integers, Sequences, FiniteSets, TLC

\* get_sqrt_ratio_at_tick and get_amounts_from_ticks are pure functions of
\* costly arithmetic.  Their values at the arguments that occur in the
\* modelled inputs are computed once, when the model starts, and kept in
\* these two variables, which never change.
VARIABLES
    memo_sqrt,         \* get_sqrt_ratio_at_tick at the ticks of TableTicks
    memo_amounts       \* get_amounts_from_ticks at the calls of AmountsCalls

(***************************************************************************)
(* Unbounded naturals (Python int, restricted to values >= 0).             *)
(***************************************************************************)
Base == 256

\* The evaluation of an operator nests only a few levels deep: addition,
\* subtraction and comparison are written in closed form, and the loop of
\* the long division is split in halves.  A value that is costly to compute
\* and used more than once is handed on as an operator argument.

\* s without its leading (most significant) zero digits.
Trim(s) ==
    IF \A i \in 1..Len(s) : s[i] = 0 THEN <<>>
    ELSE SubSeq(s, 1, CHOOSE n \in 1..Len(s) :
                        s[n] # 0 /\ \A m \in (n + 1)..Len(s) : s[m] = 0)

\* A small machine integer n >= 0 as an unbounded natural.
ToBig(n) == Trim([i \in 1..4 |-> (n \div (Base ^ (i - 1))) % Base])

\* A hexadecimal literal of the source, written in groups of four hex digits,
\* most significant group first: 0xFFFCB933 is Hex(<<\hFFFC, \hB933>>).
Hex(groups) ==
    Trim([j \in 1..(2 * Len(groups)) |->
            IF j % 2 = 1
            THEN groups[Len(groups) - ((j - 1) \div 2)] % Base
            ELSE groups[Len(groups) - ((j - 1) \div 2)] \div Base])

Digit(a, i) == IF i >= 1 /\ i <= Len(a) THEN a[i] ELSE 0

\* a < b, a <= b, a > b: decided by the most significant digit that differs.
BigLt(a, b) ==
    IF Len(a) # Len(b) THEN Len(a) < Len(b)
    ELSE \E i \in 1..Len(a) :
            a[i] < b[i] /\ \A j \in (i + 1)..Len(a) : a[j] = b[j]

BigLe(a, b) == ~BigLt(b, a)

BigGt(a, b) == BigLt(b, a)

\* One round of carrying over column sums: every column keeps its low digit
\* and receives what the column below it carries out.
CarryRound(cols) ==
    SubSeq([k \in 1..(Len(cols) + 1) |->
              (IF k <= Len(cols) THEN cols[k] % Base ELSE 0)
                + (IF k > 1 THEN cols[k - 1] \div Base ELSE 0)],
           1, Len(cols) + 1)

\* The carry into column k when no column exceeds Base: the nearest column
\* below k that is not Base - 1 is Base.
CarryInto(cols, k) ==
    \E j \in 1..(k - 1) :
        cols[j] = Base /\ \A m \in (j + 1)..(k - 1) : cols[m] = Base - 1

Ripple(cols) ==
    IF \A j \in 1..Len(cols) : cols[j] < Base THEN Trim(cols)
    ELSE Trim([k \in 1..Len(cols) |->
                 (cols[k] + IF CarryInto(cols, k) THEN 1 ELSE 0) % Base])

\* The natural whose column sums are cols, each below 2^31: four rounds
\* bring every column down to Base at most.
Carry(cols) == Ripple(CarryRound(CarryRound(CarryRound(CarryRound(cols)))))

\* a + b
BigAdd(a, b) ==
    Carry([i \in 1..(IF Len(a) > Len(b) THEN Len(a) ELSE Len(b)) |->
             Digit(a, i) + Digit(b, i)])

\* The borrow into digit k of a - b: the nearest digit below k where a and b
\* differ has the smaller digit in a.
BorrowInto(a, b, k) ==
    \E j \in 1..(k - 1) :
        a[j] < Digit(b, j) /\ \A m \in (j + 1)..(k - 1) : a[m] = Digit(b, m)

\* a - b, for a >= b
BigSub(a, b) ==
    Trim([k \in 1..Len(a) |->
            (a[k] - Digit(b, k) + Base - IF BorrowInto(a, b, k) THEN 1 ELSE 0)
                % Base])

\* a * b: column k is the sum of a[i] * b[k + 1 - i]
RECURSIVE ColumnSum(_, _, _, _, _)
ColumnSum(a, b, k, lo, hi) ==
    IF lo >= hi THEN (IF lo = hi THEN Digit(a, lo) * Digit(b, k + 1 - lo) ELSE 0)
    ELSE ColumnSum(a, b, k, lo, (lo + hi) \div 2)
            + ColumnSum(a, b, k, (lo + hi) \div 2 + 1, hi)

BigMul(a, b) ==
    IF a = <<>> \/ b = <<>> THEN <<>>
    ELSE Carry([k \in 1..(Len(a) + Len(b) - 1) |->
                  ColumnSum(a, b, k, 1, IF k < Len(a) THEN k ELSE Len(a))])

\* a * d for one digit d
BigMulDigit(a, d) ==
    IF d = 0 THEN <<>> ELSE Carry([i \in 1..Len(a) |-> a[i] * d])

\* a >> bits and a << bits, bits a multiple of 8 (all shifts of the source are)
BigShr(a, bits) ==
    IF Len(a) <= bits \div 8 THEN <<>> ELSE SubSeq(a, bits \div 8 + 1, Len(a))

BigShl(a, bits) ==
    IF a = <<>> THEN <<>> ELSE [i \in 1..(bits \div 8) |-> 0] \o a

\* a % (1 << bits), bits a multiple of 8
BigLowBits(a, bits) ==
    Trim(SubSeq(a, 1, IF Len(a) < bits \div 8 THEN Len(a) ELSE bits \div 8))

\* The largest digit q with q * b <= r, found bit by bit from the top.
RECURSIVE QuotDigit(_, _, _, _)
QuotDigit(r, b, q, bit) ==
    IF bit = 0 THEN q
    ELSE IF BigLe(BigMulDigit(b, q + bit), r)
         THEN QuotDigit(r, b, q + bit, bit \div 2)
         ELSE QuotDigit(r, b, q, bit \div 2)

\* One step of the long division: the remainder r so far, with the next
\* digit of a brought down, yields the quotient digit q and r - q * b.
DivEmit(r, b, quot, q) ==
    IF q = 0 THEN << <<q>> \o quot, r >>
    ELSE << <<q>> \o quot, BigSub(r, BigMulDigit(b, q)) >>

DivDigit(r, b, quot) == DivEmit(r, b, quot, QuotDigit(r, b, 0, Base \div 2))

\* Long division over the digits hi, hi - 1, .., lo of a (most significant
\* first); st = <<quotient digits, remainder>>.
RECURSIVE DivRange(_, _, _, _, _)
DivLower(a, b, lo, hi, st) ==
    IF Len(st) = 2 THEN DivRange(a, b, lo, hi, st) ELSE st

DivRange(a, b, lo, hi, st) ==
    IF lo >= hi
    THEN (IF lo = hi THEN DivDigit(Trim(<<a[lo]>> \o st[2]), b, st[1]) ELSE st)
    ELSE DivLower(a, b, lo, (lo + hi) \div 2,
                  DivRange(a, b, (lo + hi) \div 2 + 1, hi, st))

\* a // b for b > 0 (floor division; operands are never negative).  The
\* Len(b) - 1 most significant digits of a are below b: they start the
\* remainder, and the division runs over the digits below them.
BigDiv(a, b) ==
    IF Len(a) < Len(b) THEN <<>>
    ELSE Trim(DivRange(a, b, 1, Len(a) - Len(b) + 1,
                       << <<>>, SubSeq(a, Len(a) - Len(b) + 2, Len(a)) >>)[1])

(***************************************************************************)
(* Outcomes.  A Python call either returns a value or raises; an operator  *)
(* that can raise yields [err |-> "none", val |-> v] or                    *)
(* [err |-> <exception>, val |-> <<>>].                                    *)
(***************************************************************************)
Ok(v) == [err |-> "none", val |-> v]

Raise(e) == [err |-> e, val |-> <<>>]

(***************************************************************************)
(* Tick / price conversion.                                                *)
(***************************************************************************)
MAX_TICK == 887272

abs(n) == IF n < 0 THEN -n ELSE n

\* abs_tick & mask != 0, for mask a power of two
BitSet(abs_tick, mask) == (abs_tick \div mask) % 2 = 1

\* The multiplier of the if-statement on bit i of abs_tick (mask 2^i), for
\* i = 1 (0x2) to 19 (0x80000).
Magic(i) ==
    CASE i = 1 -> Hex(<<\hFFF9, \h7272, \h373D, \h4132, \h59A4, \h6990, \h580E, \h213A>>)
      [] i = 2 -> Hex(<<\hFFF2, \hE50F, \h5F65, \h6932, \hEF12, \h357C, \hF3C7, \hFDCC>>)
      [] i = 3 -> Hex(<<\hFFE5, \hCACA, \h7E10, \hE4E6, \h1C36, \h24EA, \hA094, \h1CD0>>)
      [] i = 4 -> Hex(<<\hFFCB, \h9843, \hD60F, \h6159, \hC9DB, \h5883, \h5C92, \h6644>>)
      [] i = 5 -> Hex(<<\hFF97, \h3B41, \hFA98, \hC081, \h472E, \h6896, \hDFB2, \h54C0>>)
      [] i = 6 -> Hex(<<\hFF2E, \hA164, \h66C9, \h6A38, \h43EC, \h78B3, \h26B5, \h2861>>)
      [] i = 7 -> Hex(<<\hFE5D, \hEE04, \h6A99, \hA2A8, \h11C4, \h61F1, \h969C, \h3053>>)
      [] i = 8 -> Hex(<<\hFCBE, \h86C7, \h900A, \h88AE, \hDCFF, \hC83B, \h479A, \hA3A4>>)
      [] i = 9 -> Hex(<<\hF987, \hA725, \h3AC4, \h1317, \h6F2B, \h074C, \hF781, \h5E54>>)
      [] i = 10 -> Hex(<<\hF339, \h2B08, \h22B7, \h0005, \h940C, \h7A39, \h8E4B, \h70F3>>)
      [] i = 11 -> Hex(<<\hE715, \h9475, \hA2C2, \h9B74, \h43B2, \h9C7F, \hA6E8, \h89D9>>)
      [] i = 12 -> Hex(<<\hD097, \hF3BD, \hFD20, \h22B8, \h845A, \hD8F7, \h92AA, \h5825>>)
      [] i = 13 -> Hex(<<\hA9F7, \h4646, \h2D87, \h0FDF, \h8A65, \hDC1F, \h90E0, \h61E5>>)
      [] i = 14 -> Hex(<<\h70D8, \h69A1, \h56D2, \hA1B8, \h90BB, \h3DF6, \h2BAF, \h32F7>>)
      [] i = 15 -> Hex(<<\h31BE, \h135F, \h97D0, \h8FD9, \h8123, \h1505, \h542F, \hCFA6>>)
      [] i = 16 -> Hex(<<\h09AA, \h508B, \h5B7A, \h84E1, \hC677, \hDE54, \hF3E9, \h9BC9>>)
      [] i = 17 -> Hex(<<\h005D, \h6AF8, \hDEDB, \h8119, \h6699, \hC329, \h225E, \hE604>>)
      [] i = 18 -> Hex(<<\h2216, \hE584, \hF5FA, \h1EA9, \h2604, \h1BED, \hFE98>>)
      [] i = 19 -> Hex(<<\h048A, \h1703, \h91F7, \hDC42, \h444E, \h8FA2>>)

\* if abs_tick & mask: ratio = (ratio * magic) >> 128
MulShift(ratio, abs_tick, mask, magic) ==
    IF BitSet(abs_tick, mask) THEN BigShr(BigMul(ratio, magic), 128) ELSE ratio

\* The if-statements on the bits i to 19 of abs_tick, applied in the order of
\* the source to the ratio reached before them (a ratio of 0 stays 0).
RECURSIVE MulShiftsFrom(_, _, _)
MulShiftsFrom(ratio, abs_tick, i) ==
    IF ratio = <<>> \/ i > 19 THEN ratio
    ELSE MulShiftsFrom(MulShift(ratio, abs_tick, 2 ^ i, Magic(i)), abs_tick, i + 1)

\* The running ratio of get_sqrt_ratio_at_tick after its 19 conditional
\* multiplications, before the inversion for positive ticks.
RatioOfAbsTick(abs_tick) ==
    MulShiftsFrom(IF BitSet(abs_tick, \h1)
                  THEN Hex(<<\hFFFC, \hB933, \hBD6F, \hAD37, \hAA2D, \h162D, \h1A59, \h4001>>)
                  ELSE Hex(<<\h0001, \h0000, \h0000, \h0000, \h0000, \h0000, \h0000, \h0000, \h0000>>),
                  abs_tick, 1)

\* sqrtPriceX96 = (ratio >> 32) + (1 if ratio % (1 << 32) != 0 else 0)
SqrtPriceOfRatio(ratio) ==
    BigAdd(BigShr(ratio, 32),
           IF BigLowBits(ratio, 32) # <<>> THEN ToBig(1) ELSE <<>>)

\* A faulty variant of SqrtRatioOfLegalTick: the ratio of a positive tick is
\* not inverted.
SqrtRatioNotInverted(tick) == SqrtPriceOfRatio(RatioOfAbsTick(abs(tick)))

\* get_sqrt_ratio_at_tick after its range check.
SqrtRatioOfLegalTick(tick) ==
    SqrtPriceOfRatio(
        IF tick > 0
        THEN BigDiv(BigShl(ToBig(1), 256), RatioOfAbsTick(abs(tick)))
        ELSE RatioOfAbsTick(abs(tick)))

\* A faulty variant of get_sqrt_ratio_at_tick: >= for > in the range check.
SqrtRatioRejectingMaxTick(tick) ==
    IF abs(tick) >= MAX_TICK
    THEN Raise("ValueError")
    ELSE Ok(SqrtRatioOfLegalTick(tick))

get_sqrt_ratio_at_tick(tick) ==
    IF abs(tick) > MAX_TICK
    THEN Raise("ValueError")
    ELSE Ok(SqrtRatioOfLegalTick(tick))

(***************************************************************************)
(* Liquidity -> amount conversion.                                         *)
(***************************************************************************)
mul_div(a, b, denominator) == BigDiv(BigMul(a, b), denominator)

\* The return expression of get_amount0_for_liquidity, on the bounds after
\* the swap that puts the smaller one first.
Amount0Ordered(sqrtRatioAX96, sqrtRatioBX96, liquidity) ==
    BigDiv(mul_div(BigShl(liquidity, 96), BigSub(sqrtRatioBX96, sqrtRatioAX96),
                   sqrtRatioBX96),
           sqrtRatioAX96)

\* A faulty variant of get_amount0_for_liquidity: the swap written as two
\* assignments in a row, which leaves both bounds equal.
Amount0WithLostBound(sqrtRatioAX96, sqrtRatioBX96, liquidity) ==
    IF BigGt(sqrtRatioAX96, sqrtRatioBX96)
    THEN Amount0Ordered(sqrtRatioBX96, sqrtRatioBX96, liquidity)
    ELSE Amount0Ordered(sqrtRatioAX96, sqrtRatioBX96, liquidity)

get_amount0_for_liquidity(sqrtRatioAX96, sqrtRatioBX96, liquidity) ==
    IF BigGt(sqrtRatioAX96, sqrtRatioBX96)
    THEN Amount0Ordered(sqrtRatioBX96, sqrtRatioAX96, liquidity)
    ELSE Amount0Ordered(sqrtRatioAX96, sqrtRatioBX96, liquidity)

\* The return expression of get_amount1_for_liquidity, after the swap.
Amount1Ordered(sqrtRatioAX96, sqrtRatioBX96, liquidity) ==
    mul_div(liquidity, BigSub(sqrtRatioBX96, sqrtRatioAX96), BigShl(ToBig(1), 96))

get_amount1_for_liquidity(sqrtRatioAX96, sqrtRatioBX96, liquidity) ==
    IF BigGt(sqrtRatioAX96, sqrtRatioBX96)
    THEN Amount1Ordered(sqrtRatioBX96, sqrtRatioAX96, liquidity)
    ELSE Amount1Ordered(sqrtRatioAX96, sqrtRatioBX96, liquidity)

\* A faulty variant of AmountsOrdered: inside the range, amount0 is taken
\* over the whole range instead of from the current price up.
AmountsOrderedWholeRange(sqrtRatioX96, sqrtRatioAX96, sqrtRatioBX96, liquidity) ==
    IF BigLe(sqrtRatioX96, sqrtRatioAX96)
    THEN <<get_amount0_for_liquidity(sqrtRatioAX96, sqrtRatioBX96, liquidity), <<>> >>
    ELSE IF BigLt(sqrtRatioX96, sqrtRatioBX96)
    THEN <<get_amount0_for_liquidity(sqrtRatioAX96, sqrtRatioBX96, liquidity),
           get_amount1_for_liquidity(sqrtRatioAX96, sqrtRatioX96, liquidity)>>
    ELSE << <<>>, get_amount1_for_liquidity(sqrtRatioAX96, sqrtRatioBX96, liquidity)>>

\* The three regimes of get_amounts_from_ticks, on the sqrt-prices of the
\* bounds after the swap: <<amount0, amount1>>.
AmountsOrdered(sqrtRatioX96, sqrtRatioAX96, sqrtRatioBX96, liquidity) ==
    IF BigLe(sqrtRatioX96, sqrtRatioAX96)
    THEN <<get_amount0_for_liquidity(sqrtRatioAX96, sqrtRatioBX96, liquidity), <<>> >>
    ELSE IF BigLt(sqrtRatioX96, sqrtRatioBX96)
    THEN <<get_amount0_for_liquidity(sqrtRatioX96, sqrtRatioBX96, liquidity),
           get_amount1_for_liquidity(sqrtRatioAX96, sqrtRatioX96, liquidity)>>
    ELSE << <<>>, get_amount1_for_liquidity(sqrtRatioAX96, sqrtRatioBX96, liquidity)>>

\* get_amounts_from_ticks from the swap of the bounds on.
AmountsFromSqrt(sqrtRatioX96, sqrtRatioAX96, sqrtRatioBX96, liquidity) ==
    IF BigGt(sqrtRatioAX96, sqrtRatioBX96)
    THEN AmountsOrdered(sqrtRatioX96, sqrtRatioBX96, sqrtRatioAX96, liquidity)
    ELSE AmountsOrdered(sqrtRatioX96, sqrtRatioAX96, sqrtRatioBX96, liquidity)

\* get_amounts_from_ticks after its three conversions, whose outcomes are
\* sX, sA and sB: the first conversion that raises ends the call.
AmountsOfOutcomes(sX, sA, sB, liquidity) ==
    IF sX.err # "none" THEN Raise(sX.err)
    ELSE IF sA.err # "none" THEN Raise(sA.err)
    ELSE IF sB.err # "none" THEN Raise(sB.err)
    ELSE Ok(AmountsFromSqrt(sX.val, sA.val, sB.val, liquidity))

\* The ticks that occur in the modelled inputs: the two values next outside
\* the legal range, and ticks around the range -100..100.
TableTicks == {-887273, -200, -100, 0, 100, 200, 887273}

sqrt_ratio_table == [tick \in TableTicks |-> get_sqrt_ratio_at_tick(tick)]

\* get_sqrt_ratio_at_tick(tick) as get_amounts_from_ticks calls it: the value
\* computed when the model started.
SqrtRatioAtTick(tick) == memo_sqrt[tick]

get_amounts_from_ticks(tickCurrent, tickLower, tickUpper, liquidity) ==
    AmountsOfOutcomes(SqrtRatioAtTick(tickCurrent), SqrtRatioAtTick(tickLower),
                      SqrtRatioAtTick(tickUpper), liquidity)

(***************************************************************************)
(* Values of the aggregation.                                              *)
(*                                                                         *)
(* An address is a string of hex digits whose letter case matters to the   *)
(* code (str.lower(), dictionary keys): it is modelled as the sequence of  *)
(* its characters, shortened to the last eight of them.  Python's None is  *)
(* <<>> and a value v that may be None is <<v>>.                           *)
(***************************************************************************)
None == <<>>

Some(v) == <<v>>

\* str.lower() on one character and on a string
LowerChar(c) ==
    CASE c = "A" -> "a" [] c = "B" -> "b" [] c = "C" -> "c"
      [] c = "D" -> "d" [] c = "E" -> "e" [] c = "F" -> "f"
      [] OTHER -> c

lower(str) == [i \in DOMAIN str |-> LowerChar(str[i])]

\* 0x4200000000000000000000000000000000000006
WETH == <<"0", "0", "0", "0", "0", "0", "0", "6">>

\* 0x833589fCD6eDb6E08f4c7C32D4f71b54bdA02913
USDC == <<"b", "d", "A", "0", "2", "9", "1", "3">>

\* 0xd9aAEc86B65D86f6A7B5B1b0c42FFA531710b6CA
USDbC == <<"1", "7", "1", "0", "b", "6", "C", "A">>

\* 0xd0b53D9277642d899DF5C87A3966A349A798F224
POOL_WETH_USDC == <<"A", "7", "9", "8", "F", "2", "2", "4">>

\* 0x4C36388bE6F416A29C8d8Eee81C771cE6bE14B18
POOL_WETH_USDbC == <<"6", "b", "E", "1", "4", "B", "1", "8">>

\* 0x03a520b32C04BF3bEEf7BEb72E919cf822Ed34f1, the position NFT contract of
\* the sample asset_data
NFT == <<"2", "2", "E", "d", "3", "4", "f", "1">>

\* 0x2Ae3F1Ec7F1F5012CFEab0185bfc7aa3cf0DEc22, the first asset of the sample
\* asset_data: a token that is in no pool of the mapping
OTHER_TOKEN == <<"c", "f", "0", "D", "E", "c", "2", "2">>

POOL_NFT_MAPPINGS ==
    << [name |-> "wETH-USDC", pool |-> POOL_WETH_USDC,
        token0 |-> WETH, token1 |-> USDC, decimal0 |-> 18, decimal1 |-> 6],
       [name |-> "wETH-USDbC", pool |-> POOL_WETH_USDbC,
        token0 |-> WETH, token1 |-> USDbC, decimal0 |-> 18, decimal1 |-> 6] >>

\* Web3.to_checksum_address: the one mixed-case spelling of an address.  The
\* checksum is a hash of the address; the model knows the checksummed spelling
\* of every address it uses.
ChecksumAddresses ==
    {WETH, USDC, USDbC, POOL_WETH_USDC, POOL_WETH_USDbC, NFT, OTHER_TOKEN}

to_checksum_address(address) ==
    CHOOSE c \in ChecksumAddresses : lower(c) = lower(address)

(***************************************************************************)
(* Dictionaries: functions whose domain is the set of keys.                *)
(***************************************************************************)
EmptyDict == <<>>

\* dictionary[key] = value
Put(dictionary, key, value) ==
    [x \in (DOMAIN dictionary) \cup {key} |->
        IF x = key THEN value ELSE dictionary[x]]

\* dictionary.get(key)
Get(dictionary, key) ==
    IF key \in DOMAIN dictionary THEN Some(dictionary[key]) ELSE None

\* Two faulty variants of add_or_update_dict: the value replaces the one
\* under the key; the value is dropped when the key is there already.
PutLastValue(dictionary, key, value) == Put(dictionary, key, value)

PutFirstValue(dictionary, key, value) ==
    IF key \in DOMAIN dictionary THEN dictionary ELSE Put(dictionary, key, value)

\* dictionary[key] += value on a defaultdict(int)
add_or_update_dict(dictionary, key, value) ==
    Put(dictionary, key,
        BigAdd(IF key \in DOMAIN dictionary THEN dictionary[key] ELSE <<>>, value))

(***************************************************************************)
(* The chain reader w3.  A call answers with the decoded value, reverts    *)
(* (web3.exceptions.ContractLogicError) or fails in any other way (a       *)
(* BadFunctionCallOutput when the address holds no such contract, a        *)
(* transport error, a timeout, ...).                                       *)
(*   w3.positions[<<address, token_id>>], w3.slot0[address] are            *)
(*   [kind |-> "ok" | "ContractLogicError" | "OtherError", value |-> ..]   *)
(***************************************************************************)
Answer(v) == [kind |-> "ok", value |-> v]

Fails(e) == [kind |-> e, value |-> <<>>]

\* contract.functions.positions(token_id).call() in its try/except
get_nft_positions_details(nft_contract_address, w3, token_id) ==
    LET contract_address == to_checksum_address(nft_contract_address)
        result == w3.positions[<<contract_address, token_id>>]
    IN  IF result.kind = "ContractLogicError" THEN Ok(None)
        ELSE IF result.kind # "ok" THEN Raise(result.kind)
        ELSE Ok(Some(result.value))

\* contract.functions.slot0().call() in its try/except
get_uniswap_slot0(pool_address, w3) ==
    LET contract_address == to_checksum_address(pool_address)
        result == w3.slot0[contract_address]
    IN  IF result.kind = "ContractLogicError" THEN Ok(None)
        ELSE IF result.kind # "ok" THEN Raise(result.kind)
        ELSE Ok(Some(result.value))

(***************************************************************************)
(* The inputs the model runs the aggregation on.                           *)
(***************************************************************************)
\* The longest asset_data.
MaxEntries == 2

\* 10**18
LIQUIDITY == Hex(<<\h0DE0, \hB6B3, \hA764, \h0000>>)

\* positions(token_id): the fields of the answer the aggregation reads
Position(token0, token1, tickLower, tickUpper) ==
    [token0 |-> token0, token1 |-> token1, tickLower |-> tickLower,
     tickUpper |-> tickUpper, liquidity |-> LIQUIDITY]

PositionValues ==
    { Position(WETH, USDC, -100, 100),        \* a pool of the mapping, as listed
      Position(lower(USDC), WETH, 100, -100), \* tokens (one in lower case) and
                                              \* ticks the other way round
      Position(WETH, USDbC, -100, 100),       \* the second pool of the mapping
      Position(WETH, OTHER_TOKEN, -100, 100), \* a pair of no pool of the mapping
      Position(WETH, USDC, -887273, 100) }    \* a tick below -MAX_TICK

\* slot0(): the field of the answer the aggregation reads
Slot0Values == {[tick |-> 0], [tick |-> 200], [tick |-> 887273]}

PositionAnswers ==
    {Answer(d) : d \in PositionValues}
        \cup {Fails("ContractLogicError"), Fails("OtherError")}

Slot0Answers ==
    {Answer(v) : v \in Slot0Values}
        \cup {Fails("ContractLogicError"), Fails("OtherError")}

\* The position tokens the reader knows and the pools it is asked about.
NftKeys == {<<NFT, 1>>, <<NFT, 2>>}

Readers ==
    [positions : [NftKeys -> PositionAnswers],
     slot0 : {f \in [{POOL_WETH_USDC, POOL_WETH_USDbC} -> Slot0Answers] :
                f[POOL_WETH_USDbC] = Answer([tick |-> 200])}]

\* The entries of asset_data: <<address, identifier, amount>>.  The second
\* position token is held under the lower-case spelling of its contract.
AssetEntries ==
    { <<WETH, 0, ToBig(100)>>, <<NFT, 0, ToBig(7)>>,
      <<NFT, 1, ToBig(1)>>, <<lower(NFT), 2, ToBig(1)>> }

AssetData(entries) ==
    << [i \in 1..Len(entries) |-> entries[i][1]],
       [i \in 1..Len(entries) |-> entries[i][2]],
       [i \in 1..Len(entries) |-> entries[i][3]] >>

AssetDataInputs ==
    {AssetData(es) : es \in UNION {[1..n -> AssetEntries] : n \in 0..MaxEntries}}

(***************************************************************************)
(* get_arcadia_account_nft_position(asset_data, w3).                       *)
(*                                                                         *)
(* asset_data = <<addresses, identifiers, amounts>>, three sequences of    *)
(* one length; indices count from 1.  The running state of a call is       *)
(*   [result |-> the defaultdict, calls |-> the reader calls made so far,  *)
(*    err |-> "none" or the exception that left the function,              *)
(*    branch |-> what the last loop iteration did]                         *)
(* calls is a history of the calls to w3; each call carries the index of   *)
(* the entry it was made for.                                              *)
(***************************************************************************)
zero_indices_of(asset_data) ==
    SelectSeq([i \in 1..Len(asset_data[2]) |-> i], LAMBDA i : asset_data[2][i] = 0)

non_zero_indices_of(asset_data) ==
    SelectSeq([i \in 1..Len(asset_data[2]) |-> i], LAMBDA i : asset_data[2][i] # 0)

\* A faulty variant of pool_lookup_upto: the pools are entered under the
\* token order of the table only.
RECURSIVE PoolLookupOneOrder(_)
PoolLookupOneOrder(n) ==
    IF n = 0 THEN EmptyDict
    ELSE Put(PoolLookupOneOrder(n - 1),
             <<lower(POOL_NFT_MAPPINGS[n].token0), lower(POOL_NFT_MAPPINGS[n].token1)>>,
             POOL_NFT_MAPPINGS[n])

\* The lookup dictionary after the first n pools of POOL_NFT_MAPPINGS
RECURSIVE pool_lookup_upto(_)
pool_lookup_upto(n) ==
    IF n = 0 THEN EmptyDict
    ELSE LET pool   == POOL_NFT_MAPPINGS[n]
             token0 == lower(pool.token0)
             token1 == lower(pool.token1)
         IN  Put(Put(pool_lookup_upto(n - 1), <<token0, token1>>, pool),
                 <<token1, token0>>, pool)

pool_lookup == pool_lookup_upto(Len(POOL_NFT_MAPPINGS))

InitialFrame == [result |-> EmptyDict, calls |-> <<>>, err |-> "none", branch |-> "start"]

\* for i in zero_indices: add_or_update_dict(result, asset_data[0][i], asset_data[2][i])
ZeroStep(asset_data, st, i) ==
    [st EXCEPT !.result = add_or_update_dict(@, asset_data[1][i], asset_data[3][i]),
               !.branch = "fungible"]

\* An exception leaves the function: nothing is returned.
Propagate(st, e) == [st EXCEPT !.err = e, !.branch = "raised"]

\* A faulty variant of RecordNotUniswap: the entry leaves no trace.
ForgetNotUniswap(st, nft_contract) == [st EXCEPT !.branch = "not_fetched"]

\* A faulty variant of RecordNotUniswap: the marker is assigned, not added.
ResetNotUniswap(st, nft_contract) ==
    [st EXCEPT !.result = Put(@, nft_contract, <<>>),
               !.branch = "not_fetched"]

\* if not nft_positions_details: add_or_update_dict(result, nft_contract, 0); continue
RecordNotUniswap(st, nft_contract) ==
    [st EXCEPT !.result = add_or_update_dict(@, nft_contract, <<>>),
               !.branch = "not_fetched"]

\* A faulty variant of RecordNotInMapping: slot0() is called before the pool
\* is looked up, on the first pool of the table.
RecordNotInMappingAfterSlot0(st, nft_contract) ==
    [st EXCEPT !.result = add_or_update_dict(@, nft_contract, <<>>),
               !.calls = Append(@, [fn |-> "slot0",
                                    address |-> to_checksum_address(POOL_NFT_MAPPINGS[1].pool),
                                    token_id |-> 0,
                                    entry |-> st.calls[Len(st.calls)].entry]),
               !.branch = "no_pool"]

\* if not matching_pool: add_or_update_dict(result, nft_contract, 0); continue
RecordNotInMapping(st, nft_contract) ==
    [st EXCEPT !.result = add_or_update_dict(@, nft_contract, <<>>),
               !.branch = "no_pool"]

\* A faulty variant of SkipEntry: the entry is recorded presence-only.
RecordNoSlot0(st, nft_contract) ==
    [st EXCEPT !.result = add_or_update_dict(@, nft_contract, <<>>),
               !.branch = "no_slot0"]

\* if not slot0: continue
SkipEntry(st, nft_contract) == [st EXCEPT !.branch = "no_slot0"]

\* The calls of get_amounts_from_ticks the modelled reader can lead to; the
\* value of the pure function on them is computed once, when the model starts,
\* kept in memo_amounts and looked up there.
AmountsCalls ==
    {<<slot0.tick, d.tickLower, d.tickUpper, d.liquidity>> :
        slot0 \in Slot0Values, d \in PositionValues}

amounts_table ==
    [c \in AmountsCalls |-> get_amounts_from_ticks(c[1], c[2], c[3], c[4])]

AmountsFromTicks(tickCurrent, tickLower, tickUpper, liquidity) ==
    memo_amounts[<<tickCurrent, tickLower, tickUpper, liquidity>>]

\* A faulty variant of CreditAmounts: a tick out of range skips the entry.
CreditAmountsOrSkip(st, details, slot0) ==
    IF AmountsFromTicks(slot0.tick, details.tickLower, details.tickUpper,
                        details.liquidity).err # "none"
    THEN [st EXCEPT !.branch = "no_slot0"]
    ELSE [st EXCEPT
            !.result = add_or_update_dict(
                           add_or_update_dict(@, details.token0,
                               AmountsFromTicks(slot0.tick, details.tickLower,
                                   details.tickUpper, details.liquidity).val[1]),
                           details.token1,
                           AmountsFromTicks(slot0.tick, details.tickLower,
                               details.tickUpper, details.liquidity).val[2]),
            !.branch = "credited"]

\* amount0, amount1 = get_amounts_from_ticks(..) and the two add_or_update_dict
\* that follow; the ValueError of an out-of-range tick is not caught.
CreditAmounts(st, details, slot0) ==
    LET amounts == AmountsFromTicks(slot0.tick, details.tickLower,
                                    details.tickUpper, details.liquidity)
    IN  IF amounts.err # "none" THEN Propagate(st, amounts.err)
        ELSE [st EXCEPT
                !.result = add_or_update_dict(
                               add_or_update_dict(@, details.token0, amounts.val[1]),
                               details.token1, amounts.val[2]),
                !.branch = "credited"]

\* slot0 = get_uniswap_slot0(..) and what follows it in the loop body
PricePosition(w3, st, nft_contract, details, matching_pool, i) ==
    LET slot0 == get_uniswap_slot0(matching_pool.pool, w3)
        st2   == [st EXCEPT !.calls = Append(@,
                    [fn |-> "slot0",
                     address |-> to_checksum_address(matching_pool.pool),
                     token_id |-> 0, entry |-> i])]
    IN  IF slot0.err # "none" THEN Propagate(st2, slot0.err)
        ELSE IF slot0.val = None THEN SkipEntry(st2, nft_contract)
        ELSE CreditAmounts(st2, details, slot0.val[1])

\* One iteration of: for i in non_zero_indices
NftStep(asset_data, w3, st, i) ==
    LET nft_contract == asset_data[1][i]
        nft_positions_details ==
            get_nft_positions_details(nft_contract, w3, asset_data[2][i])
        st1 == [st EXCEPT !.calls = Append(@,
                    [fn |-> "positions",
                     address |-> to_checksum_address(nft_contract),
                     token_id |-> asset_data[2][i], entry |-> i])]
    IN  IF nft_positions_details.err # "none"
        THEN Propagate(st1, nft_positions_details.err)
        ELSE IF nft_positions_details.val = None
        THEN RecordNotUniswap(st1, nft_contract)
        ELSE LET details == nft_positions_details.val[1]
                 token0  == lower(details.token0)
                 token1  == lower(details.token1)
                 matching_pool == Get(pool_lookup, <<token0, token1>>)
             IN  IF matching_pool = None
                 THEN RecordNotInMapping(st1, nft_contract)
                 ELSE PricePosition(w3, st1, nft_contract, details, matching_pool[1], i)

\* The two loops, from the k-th index on.
RECURSIVE ZeroLoop(_, _, _, _)
ZeroLoop(asset_data, idx, k, st) ==
    IF k > Len(idx) THEN st
    ELSE ZeroLoop(asset_data, idx, k + 1, ZeroStep(asset_data, st, idx[k]))

RECURSIVE NftLoop(_, _, _, _, _)
NftLoop(asset_data, w3, idx, k, st) ==
    IF k > Len(idx) \/ st.err # "none" THEN st
    ELSE NftLoop(asset_data, w3, idx, k + 1, NftStep(asset_data, w3, st, idx[k]))

\* The whole call: the frame it ends with (err = "none": result is returned).
get_arcadia_account_nft_position(asset_data, w3) ==
    NftLoop(asset_data, w3, non_zero_indices_of(asset_data), 1,
            ZeroLoop(asset_data, zero_indices_of(asset_data), 1, InitialFrame))

(***************************************************************************)
(* The state machine.                                                      *)
(*                                                                         *)
(* Spec runs get_arcadia_account_nft_position on one asset_data against    *)
(* one reader, an iteration of a loop at a time.  SpecMath calls one of    *)
(* the pure functions of the price arithmetic on one tuple of arguments.   *)
(***************************************************************************)
VARIABLES
    asset_data,        \* the argument asset_data
    w3,                \* the argument w3: what the chain answers
    pc,                \* "call", "zero_loop", "nft_loop", "returned", "raised"; "idle" in SpecMath
    zero_indices,      \* the local zero_indices
    non_zero_indices,  \* the local non_zero_indices
    k,                 \* the position of the running loop in its index list
    result,            \* the local result
    calls,             \* history: the calls to w3 made so far
    exception,         \* "none", or the exception that left the function
    branch,            \* history: what the last iteration did
    m_call,            \* SpecMath: [fn |-> the function, args |-> its arguments]
    m_pc,              \* SpecMath: "called", "returned", "raised"; "idle" in Spec
    m_out              \* SpecMath: the outcome of the call

vars == <<asset_data, w3, pc, zero_indices, non_zero_indices, k, result, calls,
          exception, branch, m_call, m_pc, m_out, memo_sqrt, memo_amounts>>

aggVars == <<asset_data, w3, pc, zero_indices, non_zero_indices, k, result, calls,
             exception, branch>>

mathVars == <<m_call, m_pc, m_out>>

memoVars == <<memo_sqrt, memo_amounts>>

Frame == [result |-> result, calls |-> calls, err |-> exception, branch |-> branch]

Init ==
    /\ memo_sqrt = sqrt_ratio_table
    /\ memo_amounts = amounts_table
    /\ asset_data \in AssetDataInputs
    /\ w3 \in Readers
    /\ pc = "call"
    /\ zero_indices = <<>>
    /\ non_zero_indices = <<>>
    /\ k = 0
    /\ result = EmptyDict
    /\ calls = <<>>
    /\ exception = "none"
    /\ branch = "start"
    /\ m_call = [fn |-> "none", args |-> <<>>]
    /\ m_pc = "idle"
    /\ m_out = Ok(<<>>)

\* The statements before the loops.
Start ==
    /\ pc = "call"
    /\ zero_indices' = zero_indices_of(asset_data)
    /\ non_zero_indices' = non_zero_indices_of(asset_data)
    /\ result' = InitialFrame.result
    /\ k' = 1
    /\ pc' = "zero_loop"
    /\ UNCHANGED <<asset_data, w3, calls, exception, branch, mathVars, memoVars>>

\* One iteration of the first loop.
ZeroEntry ==
    /\ pc = "zero_loop"
    /\ k <= Len(zero_indices)
    /\ LET st == ZeroStep(asset_data, Frame, zero_indices[k])
       IN  /\ result' = st.result
           /\ branch' = st.branch
    /\ k' = k + 1
    /\ UNCHANGED <<asset_data, w3, pc, zero_indices, non_zero_indices, calls,
                   exception, mathVars, memoVars>>

\* The first loop is exhausted.
ZeroLoopEnd ==
    /\ pc = "zero_loop"
    /\ k > Len(zero_indices)
    /\ pc' = "nft_loop"
    /\ k' = 1
    /\ UNCHANGED <<asset_data, w3, zero_indices, non_zero_indices, result, calls,
                   exception, branch, mathVars, memoVars>>

\* One iteration of the second loop.
NftEntry ==
    /\ pc = "nft_loop"
    /\ k <= Len(non_zero_indices)
    /\ LET st == NftStep(asset_data, w3, Frame, non_zero_indices[k])
       IN  /\ result' = st.result
           /\ calls' = st.calls
           /\ exception' = st.err
           /\ branch' = st.branch
           /\ pc' = IF st.err = "none" THEN "nft_loop" ELSE "raised"
    /\ k' = k + 1
    /\ UNCHANGED <<asset_data, w3, zero_indices, non_zero_indices, mathVars, memoVars>>

\* return result
Return ==
    /\ pc = "nft_loop"
    /\ k > Len(non_zero_indices)
    /\ pc' = "returned"
    /\ UNCHANGED <<asset_data, w3, zero_indices, non_zero_indices, k, result,
                   calls, exception, branch, mathVars, memoVars>>

Next ==
    \/ Start
    \/ ZeroEntry
    \/ ZeroLoopEnd
    \/ NftEntry
    \/ Return

Spec == Init /\ [][Next]_vars

(***************************************************************************)
(* SpecMath: one call of a pure function of the price arithmetic.          *)
(***************************************************************************)
\* 2**96, the sqrt-price of tick 0
Q96 == Hex(<<\h0001, \h0000, \h0000, \h0000, \h0000, \h0000, \h0000>>)

\* The ticks get_sqrt_ratio_at_tick is called on: the end points of the legal
\* range, the values next to them on both sides, and ticks around 0.
SqrtTicks ==
    {-887273, -887272, -887271, -100, -1, 0, 1, 100, 887271, 887272, 887273}

\* The sqrt-prices (positive) and the liquidities the amounts are computed on.
\* The last sqrt-price is that of tick 100.
SqrtPrices ==
    {ToBig(1), ToBig(3), Q96,
     Hex(<<\h0001, \h0148, \h7BEE, \h1C17, \hDDB4, \h5CE0, \hBAE0>>)}

Liquidities == {<<>>, ToBig(1), LIQUIDITY}

MathCalls ==
    {[fn |-> "get_sqrt_ratio_at_tick", args |-> <<tick>>] : tick \in SqrtTicks}
    \cup {[fn |-> f, args |-> <<a, b, l>>] :
            f \in {"get_amount0_for_liquidity", "get_amount1_for_liquidity"},
            a \in SqrtPrices, b \in SqrtPrices, l \in Liquidities}
    \cup {[fn |-> "get_amounts_from_ticks", args |-> <<c, lo, hi, l>>] :
            c \in TableTicks, lo \in {-887273, -100, 100}, hi \in {-100, 100},
            l \in Liquidities}

InitMath ==
    /\ memo_sqrt = sqrt_ratio_table
    /\ memo_amounts = amounts_table
    /\ asset_data = AssetData(<<>>)
    /\ w3 = [positions |-> [key \in NftKeys |-> Fails("ContractLogicError")],
             slot0 |-> [pool \in {POOL_WETH_USDC, POOL_WETH_USDbC} |->
                           Fails("ContractLogicError")]]
    /\ pc = "idle"
    /\ zero_indices = <<>>
    /\ non_zero_indices = <<>>
    /\ k = 0
    /\ result = EmptyDict
    /\ calls = <<>>
    /\ exception = "none"
    /\ branch = "start"
    /\ m_call \in MathCalls
    /\ m_pc = "called"
    /\ m_out = Ok(<<>>)

\* The call returns or raises: its outcome is out.
Finish(out) ==
    /\ m_out' = out
    /\ m_pc' = IF out.err = "none" THEN "returned" ELSE "raised"
    /\ UNCHANGED <<m_call, aggVars, memoVars>>

CallSqrtRatioAtTick ==
    /\ m_pc = "called"
    /\ m_call.fn = "get_sqrt_ratio_at_tick"
    /\ Finish(get_sqrt_ratio_at_tick(m_call.args[1]))

CallAmount0ForLiquidity ==
    /\ m_pc = "called"
    /\ m_call.fn = "get_amount0_for_liquidity"
    /\ Finish(Ok(get_amount0_for_liquidity(m_call.args[1], m_call.args[2],
                                           m_call.args[3])))

CallAmount1ForLiquidity ==
    /\ m_pc = "called"
    /\ m_call.fn = "get_amount1_for_liquidity"
    /\ Finish(Ok(get_amount1_for_liquidity(m_call.args[1], m_call.args[2],
                                           m_call.args[3])))

CallAmountsFromTicks ==
    /\ m_pc = "called"
    /\ m_call.fn = "get_amounts_from_ticks"
    /\ Finish(get_amounts_from_ticks(m_call.args[1], m_call.args[2],
                                     m_call.args[3], m_call.args[4]))

NextMath ==
    \/ CallSqrtRatioAtTick
    \/ CallAmount0ForLiquidity
    \/ CallAmount1ForLiquidity
    \/ CallAmountsFromTicks

SpecMath == InitMath /\ [][NextMath]_vars

(***************************************************************************)
(* Properties of the price arithmetic (SpecMath).                          *)
(***************************************************************************)
Returned(fn) == m_call.fn = fn /\ m_pc = "returned"

\* The smaller and the larger of two sqrt-prices.
Lower(a, b) == IF BigLt(b, a) THEN b ELSE a

Upper(a, b) == IF BigLt(b, a) THEN a ELSE b

\* What the trichotomy gives for the current sqrt-price x, the bounds
\* lo <= hi and the liquidity l.
Trichotomy(x, lo, hi, l, amounts) ==
    /\ BigLe(x, lo) =>
          amounts = <<get_amount0_for_liquidity(lo, hi, l), <<>> >>
    /\ BigLt(lo, x) /\ BigLt(x, hi) =>
          amounts = <<get_amount0_for_liquidity(x, hi, l),
                      get_amount1_for_liquidity(lo, x, l)>>
    /\ BigLe(hi, x) =>
          amounts = << <<>>, get_amount1_for_liquidity(lo, hi, l)>>

\* C1: a call of get_amounts_from_ticks that returns has applied the regime
\* its current sqrt-price selects among the three, on the bounds ordered
\* lower <= upper: at or below the lower bound all of the position is
\* token0, at or above the upper bound all of it is token1, strictly between
\* them amount0 runs from the current price up and amount1 from the lower
\* bound to the current price.
C1_Trichotomy ==
    Returned("get_amounts_from_ticks") =>
        Trichotomy(memo_sqrt[m_call.args[1]].val,
                   Lower(memo_sqrt[m_call.args[2]].val, memo_sqrt[m_call.args[3]].val),
                   Upper(memo_sqrt[m_call.args[2]].val, memo_sqrt[m_call.args[3]].val),
                   m_call.args[4], m_out.val)

\* The current tick is the upper bound of the range -100..100: amount0 is 0
\* and amount1 is not.
C1_Witness ==
    /\ Returned("get_amounts_from_ticks")
    /\ m_call.args = <<100, -100, 100, LIQUIDITY>>
    /\ m_out.val[1] = <<>>
    /\ m_out.val[2] # <<>>

LegalTick(tick) == tick >= -887272 /\ tick <= 887272

\* C8: get_amount0_for_liquidity returns the same amount with its two
\* sqrt-prices swapped, and get_amounts_from_ticks returns the same amounts
\* with its two bounds swapped.
C8_BoundsOrderIrrelevant ==
    /\ Returned("get_amount0_for_liquidity") /\ m_call.args[1] # m_call.args[2] =>
          m_out.val = get_amount0_for_liquidity(m_call.args[2], m_call.args[1],
                                                m_call.args[3])
    /\ Returned("get_amounts_from_ticks") =>
          m_out = get_amounts_from_ticks(m_call.args[1], m_call.args[3],
                                         m_call.args[2], m_call.args[4])

\* get_amount0_for_liquidity was called with the larger sqrt-price first and
\* returned an amount that is not 0.
C8_Witness ==
    /\ Returned("get_amount0_for_liquidity")
    /\ BigGt(m_call.args[1], m_call.args[2])
    /\ m_out.val # <<>>

\* C9: a call of get_sqrt_ratio_at_tick raises ValueError if its tick is
\* outside -887272..887272 and returns a value if it is inside.
C9_DomainExactlyLegalTicks ==
    m_call.fn = "get_sqrt_ratio_at_tick" /\ m_pc # "called" =>
        IF LegalTick(m_call.args[1])
        THEN m_pc = "returned" /\ m_out.err = "none"
        ELSE m_pc = "raised" /\ m_out.err = "ValueError"

\* The call on the largest legal tick has returned.
C9_Witness ==
    /\ Returned("get_sqrt_ratio_at_tick")
    /\ m_call.args[1] = 887272
    /\ m_out.val # <<>>

(***************************************************************************)
(* Properties of the aggregation (Spec).                                   *)
(***************************************************************************)
Terminated == pc \in {"returned", "raised"}

Entries == 1..Len(asset_data[1])

RemoveAt(s, i) == SubSeq(s, 1, i - 1) \o SubSeq(s, i + 1, Len(s))

\* The call on asset_data without its i-th entry, against the same reader.
RunWithout(i) ==
    get_arcadia_account_nft_position(
        <<RemoveAt(asset_data[1], i), RemoveAt(asset_data[2], i),
          RemoveAt(asset_data[3], i)>>, w3)

\* The call on asset_data with its entries in the order p.
RunPermuted(p) ==
    get_arcadia_account_nft_position(
        <<[j \in Entries |-> asset_data[1][p[j]]],
          [j \in Entries |-> asset_data[2][p[j]]],
          [j \in Entries |-> asset_data[3][p[j]]]>>, w3)

\* The dictionary d with key present: at 0 if d does not have it.
WithMarker(d, key) ==
    [x \in DOMAIN d \cup {key} |-> IF x \in DOMAIN d THEN d[x] ELSE <<>>]

\* Reader calls without the number of the entry they were made for.
Anonymous(cs) ==
    [j \in 1..Len(cs) |->
        [fn |-> cs[j].fn, address |-> cs[j].address, token_id |-> cs[j].token_id]]

CallsFor(i) == SelectSeq(calls, LAMBDA c : c.entry = i)

CallsNotFor(i) == SelectSeq(calls, LAMBDA c : c.entry # i)

Slot0CallsFor(i) == SelectSeq(calls, LAMBDA c : c.entry = i /\ c.fn = "slot0")

\* What the reader answers to positions(token_id) for the i-th entry.
PositionAnswer(i) ==
    w3.positions[<<to_checksum_address(asset_data[1][i]), asset_data[2][i]>>]

\* The i-th entry has been looked up, and the reader answered as kind says.
LookedUp(i, kind) ==
    /\ asset_data[2][i] # 0
    /\ CallsFor(i) # <<>>
    /\ PositionAnswer(i).kind = kind

\* slot0() has been called for the i-th entry, and the reader answered as
\* kind says.
Slot0Asked(i, kind) ==
    /\ Slot0CallsFor(i) # <<>>
    /\ w3.slot0[Slot0CallsFor(i)[1].address].kind = kind

\* The n-th pool of the table has the pair of details, in either order and
\* whatever the case of the letters.
SamePair(details, n) ==
    {lower(details.token0), lower(details.token1)}
        = {lower(POOL_NFT_MAPPINGS[n].token0), lower(POOL_NFT_MAPPINGS[n].token1)}

PairInTable(details) == \E n \in DOMAIN POOL_NFT_MAPPINGS : SamePair(details, n)

\* The sum of the amounts of the first n entries held under address.
RECURSIVE SumFor(_, _)
SumFor(address, n) ==
    IF n = 0 THEN <<>>
    ELSE BigAdd(SumFor(address, n - 1),
                IF asset_data[1][n] = address THEN asset_data[3][n] ELSE <<>>)

OutOfRange(tick) == tick < -887272 \/ tick > 887272

\* C2: the only exception that leaves the aggregation is the ValueError of
\* a tick out of range; no failure of a reader call does.
C2_OnlyDomainErrorAborts == pc = "raised" => exception = "ValueError"

\* C3: when positions() of an entry fails with ContractLogicError, the
\* address of the entry is a key of the result, slot0() is not called for
\* the entry, and the run is otherwise the run without the entry: the same
\* result but for that key, the same outcome, the same calls for the other
\* entries.
C3_InterfaceMismatchDegrades ==
    Terminated =>
        \A i \in Entries :
            LookedUp(i, "ContractLogicError") =>
                /\ asset_data[1][i] \in DOMAIN result
                /\ Slot0CallsFor(i) = <<>>
                /\ result = WithMarker(RunWithout(i).result, asset_data[1][i])
                /\ exception = RunWithout(i).err
                /\ Anonymous(CallsNotFor(i)) = Anonymous(RunWithout(i).calls)

\* The first position fails the interface, the second is priced afterwards.
C3_Witness ==
    /\ pc = "returned"
    /\ Len(asset_data[1]) = 2
    /\ LookedUp(1, "ContractLogicError")
    /\ result[asset_data[1][1]] = <<>>
    /\ Slot0Asked(2, "ok")
    /\ branch = "credited"

\* C4: when every identifier is 0, the reader is never called, the call
\* returns, and the result has the addresses of asset_data for keys, each
\* with the sum of the amounts held under it.
C4_AllFungible ==
    (\A i \in Entries : asset_data[2][i] = 0) =>
        /\ calls = <<>>
        /\ pc # "raised"
        /\ pc = "returned" =>
              /\ DOMAIN result = {asset_data[1][i] : i \in Entries}
              /\ \A a \in DOMAIN result : result[a] = SumFor(a, Len(asset_data[1]))

\* Two fungible entries of one address have been added up.
C4_Witness ==
    /\ pc = "returned"
    /\ Len(asset_data[1]) = 2
    /\ asset_data[2] = <<0, 0>>
    /\ asset_data[1][1] = asset_data[1][2]
    /\ result[asset_data[1][1]] = BigAdd(asset_data[3][1], asset_data[3][2])

\* C5: when slot0() of the pool of an entry fails with ContractLogicError,
\* the result and the outcome are those of the run without the entry.
C5_Slot0UnavailableSkips ==
    Terminated =>
        \A i \in Entries :
            Slot0Asked(i, "ContractLogicError") =>
                /\ result = RunWithout(i).result
                /\ exception = RunWithout(i).err

\* A position whose pool has no slot0 was skipped next to a fungible entry:
\* its address is no key of the result.
C5_Witness ==
    /\ pc = "returned"
    /\ Len(asset_data[1]) = 2
    /\ \E i \in Entries :
          /\ Slot0Asked(i, "ContractLogicError")
          /\ asset_data[1][i] \notin DOMAIN result
    /\ result # EmptyDict

\* C6: slot0() is called for a fetched position exactly when a pool of the
\* table has the position's pair of tokens, in either order and whatever the
\* case, and then on that pool; a position of no such pair leaves its address
\* as a key and the run otherwise as it is without the entry.
C6_PoolResolution ==
    Terminated =>
        \A i \in Entries :
            LookedUp(i, "ok") =>
                /\ PairInTable(PositionAnswer(i).value) <=> Slot0CallsFor(i) # <<>>
                /\ \A j \in DOMAIN Slot0CallsFor(i) :
                      \E n \in DOMAIN POOL_NFT_MAPPINGS :
                          /\ SamePair(PositionAnswer(i).value, n)
                          /\ Slot0CallsFor(i)[j].address
                                = to_checksum_address(POOL_NFT_MAPPINGS[n].pool)
                /\ ~PairInTable(PositionAnswer(i).value) =>
                      /\ result = WithMarker(RunWithout(i).result, asset_data[1][i])
                      /\ exception = RunWithout(i).err

\* A position that names its tokens the other way round than the table, one
\* of them in lower case, has been priced.
C6_Witness ==
    /\ pc = "returned"
    /\ \E i \in Entries :
          /\ LookedUp(i, "ok")
          /\ PositionAnswer(i).value.token0 = lower(USDC)
          /\ PositionAnswer(i).value.token1 = WETH
          /\ Slot0Asked(i, "ok")
    /\ branch = "credited"

\* C7: a call that returns, returns the same result for every order of the
\* entries of asset_data; a call that raises, raises for every order.
C7_OrderIndependent ==
    Terminated =>
        \A p \in Permutations(Entries) :
            /\ pc = "returned" =>
                  /\ RunPermuted(p).err = "none"
                  /\ RunPermuted(p).result = result
            /\ pc = "raised" => RunPermuted(p).err # "none"

\* Two different positions have been priced.
C7_Witness ==
    /\ pc = "returned"
    /\ Len(asset_data[1]) = 2
    /\ asset_data[2][1] # asset_data[2][2]
    /\ Slot0Asked(1, "ok")
    /\ Slot0Asked(2, "ok")
    /\ PositionAnswer(1) # PositionAnswer(2)

\* C10: once a position of a pool of the table has got its slot0 and one of
\* the current tick, tickLower and tickUpper is out of range, the call has
\* raised ValueError: it returns nothing.
C10_TickOutOfRangePropagates ==
    \A i \in Entries :
        /\ LookedUp(i, "ok")
        /\ Slot0Asked(i, "ok")
        /\ \/ OutOfRange(w3.slot0[Slot0CallsFor(i)[1].address].value.tick)
           \/ OutOfRange(PositionAnswer(i).value.tickLower)
           \/ OutOfRange(PositionAnswer(i).value.tickUpper)
        => pc = "raised" /\ exception = "ValueError"

\* The call raised on the second position, after the first was accumulated.
C10_Witness ==
    /\ pc = "raised"
    /\ exception = "ValueError"
    /\ Len(asset_data[1]) = 2
    /\ Slot0Asked(2, "ok")
    /\ OutOfRange(PositionAnswer(2).value.tickLower)
    /\ result # EmptyDict

(***************************************************************************)
(* Monotonicity of the tick conversion (SpecMath).                         *)
(***************************************************************************)
\* C11: the value get_sqrt_ratio_at_tick returns for a tick is less than the
\* value it returns for every larger legal tick, and the value for tick 0 is
\* 2^96.
C11_StrictlyIncreasing ==
    Returned("get_sqrt_ratio_at_tick") =>
        /\ m_call.args[1] = 0 => m_out.val = Q96
        /\ \A t2 \in SqrtTicks :
              LegalTick(t2) /\ m_call.args[1] < t2 =>
                  BigLt(m_out.val, get_sqrt_ratio_at_tick(t2).val)

\* The call on tick -1 has returned a value below 2^96.
C11_Witness ==
    /\ Returned("get_sqrt_ratio_at_tick")
    /\ m_call.args[1] = -1
    /\ m_out.val # <<>>
    /\ BigLt(m_out.val, Q96)

(***************************************************************************)
(* The reader calls of a run (Spec).                                       *)
(***************************************************************************)
NonZeroEntries == {i \in Entries : asset_data[2][i] # 0}

PositionCallsFor(i) == SelectSeq(calls, LAMBDA c : c.entry = i /\ c.fn = "positions")

\* The calls made for the i-th entry are none, positions(), or positions()
\* and then slot0(), the latter only after positions() answered with a pair
\* of the table.
CallsInOrder(i) ==
    /\ Len(CallsFor(i)) <= 2
    /\ Len(CallsFor(i)) >= 1 =>
          /\ CallsFor(i)[1].fn = "positions"
          /\ CallsFor(i)[1].address = to_checksum_address(asset_data[1][i])
          /\ CallsFor(i)[1].token_id = asset_data[2][i]
    /\ Len(CallsFor(i)) = 2 =>
          /\ CallsFor(i)[2].fn = "slot0"
          /\ PositionAnswer(i).kind = "ok"
          /\ PairInTable(PositionAnswer(i).value)

\* Every failure of the reader is a ContractLogicError.
ReaderFailsOnlyByContractLogic ==
    /\ \A key \in DOMAIN w3.positions :
          w3.positions[key].kind \in {"ok", "ContractLogicError"}
    /\ \A pool \in DOMAIN w3.slot0 :
          w3.slot0[pool].kind \in {"ok", "ContractLogicError"}

\* C12 as stated, for readers that fail by ContractLogicError only: in a
\* finished run no call was made for an entry of identifier 0, exactly one
\* positions() call and at most one slot0() call after it for every other
\* entry, between N and 2N calls in all.
C12_EveryEntryLookedUp ==
    ReaderFailsOnlyByContractLogic /\ Terminated =>
        /\ \A i \in Entries \ NonZeroEntries : CallsFor(i) = <<>>
        /\ \A i \in NonZeroEntries :
              /\ Len(PositionCallsFor(i)) = 1
              /\ CallsInOrder(i)
        /\ Cardinality(NonZeroEntries) <= Len(calls)
        /\ Len(calls) <= 2 * Cardinality(NonZeroEntries)

\* C12, amended: at every point of a run no call was made for an entry of
\* identifier 0; for every other entry the calls are none, positions(), or
\* positions() and then slot0(), the latter only after positions() answered
\* with a pair of the table; entries are looked up in the order of the
\* input, so that an entry after the one that raised has no call; the calls
\* are at most 2N in all; and a run that returns has looked up every entry
\* of non-zero identifier once, with at least N calls in all.
C12_CallsPerEntry ==
    /\ \A i \in Entries \ NonZeroEntries : CallsFor(i) = <<>>
    /\ \A i \in NonZeroEntries : CallsInOrder(i)
    /\ \A i \in NonZeroEntries : \A j \in NonZeroEntries :
          i < j /\ CallsFor(j) # <<>> => CallsFor(i) # <<>>
    /\ Len(calls) <= 2 * Cardinality(NonZeroEntries)
    /\ pc = "raised" =>
          \A i \in NonZeroEntries :
              calls[Len(calls)].entry < i => CallsFor(i) = <<>>
    /\ pc = "returned" =>
          /\ \A i \in NonZeroEntries : Len(PositionCallsFor(i)) = 1
          /\ Cardinality(NonZeroEntries) <= Len(calls)

\* The first position had a tick out of range: the call raised ValueError
\* after positions() and slot0() for it, and no call was made for the second.
C12_Witness ==
    /\ pc = "raised"
    /\ exception = "ValueError"
    /\ NonZeroEntries = {1, 2}
    /\ Len(CallsFor(1)) = 2
    /\ CallsFor(2) = <<>>

(***************************************************************************)
(* What a key of the result holds (Spec).                                  *)
(***************************************************************************)
\* The answer of slot0() of the pool of the table that has the pair of details.
Slot0AnswerFor(details) ==
    w3.slot0[to_checksum_address(
        POOL_NFT_MAPPINGS[CHOOSE n \in DOMAIN POOL_NFT_MAPPINGS :
                              SamePair(details, n)].pool)]

\* The amounts of a position under the tick of its pool.
AmountsOfPosition(details, slot0) ==
    memo_amounts[<<slot0.tick, details.tickLower, details.tickUpper,
                   details.liquidity>>].val

\* What the position details credits to address, given its amounts.
ShareOf(details, amounts, address) ==
    BigAdd(IF details.token0 = address THEN amounts[1] ELSE <<>>,
           IF details.token1 = address THEN amounts[2] ELSE <<>>)

\* What the i-th entry credits to address in a run that returns: its amount
\* if its identifier is 0, the amounts of its position if that was fetched,
\* matched and priced, and 0 otherwise.
CreditOf(i, address) ==
    IF asset_data[2][i] = 0
    THEN IF asset_data[1][i] = address THEN asset_data[3][i] ELSE <<>>
    ELSE IF /\ PositionAnswer(i).kind = "ok"
            /\ PairInTable(PositionAnswer(i).value)
            /\ Slot0AnswerFor(PositionAnswer(i).value).kind = "ok"
         THEN ShareOf(PositionAnswer(i).value,
                      AmountsOfPosition(PositionAnswer(i).value,
                                        Slot0AnswerFor(PositionAnswer(i).value).value),
                      address)
         ELSE <<>>

RECURSIVE CreditedUpTo(_, _)
CreditedUpTo(address, n) ==
    IF n = 0 THEN <<>>
    ELSE BigAdd(CreditedUpTo(address, n - 1), CreditOf(n, address))

\* A step keeps every key of the result and lowers the value of none; a step
\* that records a presence-only marker changes the value of none.
KeysKeepTheirAmounts ==
    \A a \in DOMAIN result :
        /\ a \in DOMAIN result'
        /\ BigLe(result[a], result'[a])
        /\ branch' \in {"not_fetched", "no_pool"} /\ calls' # calls =>
              result'[a] = result[a]

\* C13: no step of a run resets or lowers the value of a key, a presence-only
\* marker leaves the values of the keys that are there as they are, and the
\* value of every key of a returned result is the sum of the fungible
\* amounts and of the position amounts credited to it.
C13_MarkersAddNothing ==
    /\ [](pc = "returned" =>
            \A a \in DOMAIN result :
                result[a] = CreditedUpTo(a, Len(asset_data[1])))
    /\ [][KeysKeepTheirAmounts]_vars

\* The contract of an unrecognized position is also held as a fungible
\* entry: its key keeps the fungible amount.
C13_Witness ==
    /\ pc = "returned"
    /\ Len(asset_data[1]) = 2
    /\ \E i \in Entries, j \in Entries :
          /\ asset_data[2][i] = 0
          /\ asset_data[1][j] = asset_data[1][i]
          /\ LookedUp(j, "ContractLogicError")
          /\ result[asset_data[1][i]] = asset_data[3][i]
          /\ asset_data[3][i] # <<>>

====
